---- MODULE Spec2Model ----
(***************************************************************************)
(* A model of the contact book of src/main.py: Field validators, Record,   *)
(* AddressBook (with the upcoming-birthdays query) and the command         *)
(* handlers wrapped by input_error.                                        *)
(*                                                                         *)
(* A Python str is a sequence of one-character strings; a text that is     *)
(* only ever displayed (a message, a handler's answer) is a TLA+ string    *)
(* built with \o from the literal parts and Str(token).                    *)
(***************************************************************************)
EXTENDS Integers, Sequences, FiniteSets, TLC

VARIABLES
    records,   \* the address book: AddressBook.records
    before,    \* the address book as it was when the call was made
    today,     \* datetime.today().date() as the call read it: <<>> or <<date>>
    call,      \* the call: its name and its arguments
    result,    \* what the call returned or raised
    pc         \* "ready" for the next call, or "returned" from one

vars == <<records, before, today, call, result, pc>>

(***************************************************************************)
(* Bounds of the model.                                                    *)
(***************************************************************************)
\* the longest phone list of the record the Record methods are called on
MaxPhones == 4

\* the longest phone list of a record of the book the commands act on
MaxBookPhones == 2

(***************************************************************************)
(* Characters and str methods.                                             *)
(***************************************************************************)
\* the ASCII decimal digits and their values
DigitValue == [c \in {"0", "1", "2", "3", "4", "5", "6", "7", "8", "9"} |->
                 CASE c = "0" -> 0 [] c = "1" -> 1 [] c = "2" -> 2 [] c = "3" -> 3
                   [] c = "4" -> 4 [] c = "5" -> 5 [] c = "6" -> 6 [] c = "7" -> 7
                   [] c = "8" -> 8 [] c = "9" -> 9]

AsciiDigits == DOMAIN DigitValue

\* characters of Unicode category No with the Digit property (U+00B2 here):
\* str.isdigit() accepts them, the regular expression \d and int() do not
SuperscriptDigits == {"²"}

\* str.isdigit(): non-empty and every character has the Digit property
isdigit(s) == /\ Len(s) > 0
              /\ \A i \in 1..Len(s) : s[i] \in AsciiDigits \cup SuperscriptDigits

\* the regular expression \d on a str pattern: a decimal digit
IsDecimal(c) == c \in AsciiDigits

\* str(value) of a token, as displayed text
RECURSIVE Str(_)
Str(s) == IF s = <<>> THEN "" ELSE Head(s) \o Str(Tail(s))

\* sep.join(parts) on displayed texts
RECURSIVE Join(_, _)
Join(sep, parts) ==
    IF parts = <<>> THEN ""
    ELSE IF Len(parts) = 1 THEN parts[1]
    ELSE parts[1] \o sep \o Join(sep, Tail(parts))

DigitChar == [n \in 0..9 |-> CHOOSE c \in AsciiDigits : DigitValue[c] = n]

\* the decimal digits of n, at least width of them (the %02d / %04d of
\* strftime, and str(n) with width 1)
RECURSIVE Dec(_, _)
Dec(n, width) ==
    IF n < 10 /\ width <= 1 THEN <<DigitChar[n]>>
    ELSE Append(Dec(n \div 10, width - 1), DigitChar[n % 10])

\* int(s) of a str of decimal digits
RECURSIVE ToInt(_)
ToInt(s) == IF s = <<>> THEN 0
            ELSE 10 * ToInt(SubSeq(s, 1, Len(s) - 1)) + DigitValue[s[Len(s)]]

(***************************************************************************)
(* datetime.date: the proleptic Gregorian calendar.                        *)
(***************************************************************************)
IsLeap(y) == y % 4 = 0 /\ (y % 100 # 0 \/ y % 400 = 0)

DaysInMonth(y, m) ==
    IF m = 2 THEN (IF IsLeap(y) THEN 29 ELSE 28)
    ELSE IF m \in {4, 6, 9, 11} THEN 30 ELSE 31

DaysBeforeYear(y) == (y - 1) * 365 + (y - 1) \div 4 - (y - 1) \div 100 + (y - 1) \div 400

RECURSIVE DaysBeforeMonth(_, _)
DaysBeforeMonth(y, m) ==
    IF m = 1 THEN 0 ELSE DaysBeforeMonth(y, m - 1) + DaysInMonth(y, m - 1)

Date(y, m, d) == [year |-> y, month |-> m, day |-> d]

\* the check of the date constructor (and of replace)
ValidDate(y, m, d) == /\ y \in 1..9999
                      /\ m \in 1..12
                      /\ d \in 1..DaysInMonth(y, m)

toordinal(dt) == DaysBeforeYear(dt.year) + DaysBeforeMonth(dt.year, dt.month) + dt.day

RECURSIVE YearOfOrdinal(_, _)
YearOfOrdinal(n, y) == IF n <= DaysBeforeYear(y + 1) THEN y ELSE YearOfOrdinal(n, y + 1)

RECURSIVE MonthOfOrdinal(_, _, _)
MonthOfOrdinal(n, y, m) ==
    IF n <= DaysBeforeMonth(y, m) + DaysInMonth(y, m) THEN m ELSE MonthOfOrdinal(n, y, m + 1)

fromordinal(n) ==
    LET y == YearOfOrdinal(n, n \div 366 + 1)
        r == n - DaysBeforeYear(y)
        m == MonthOfOrdinal(r, y, 1)
    IN  Date(y, m, r - DaysBeforeMonth(y, m))

\* date.weekday(): Monday is 0, Sunday is 6
weekday(dt) == (toordinal(dt) + 6) % 7

\* date + timedelta(days=n)
AddDays(dt, n) == fromordinal(toordinal(dt) + n)

\* (a - b).days
DaysBetween(a, b) == toordinal(a) - toordinal(b)

\* a < b on dates
DateBefore(a, b) == toordinal(a) < toordinal(b)

(***************************************************************************)
(* Outcomes: a call returns a value or raises an exception.                *)
(***************************************************************************)
Return(v) == [kind |-> "return", value |-> v]

Raise(exc, msg) == [kind |-> "raise", exc |-> exc, msg |-> msg]

Raised(o) == o.kind = "raise"

(***************************************************************************)
(* datetime.strptime(value, "%d.%m.%Y") and date.strftime("%d.%m.%Y").     *)
(***************************************************************************)
\* the index of the first "." of s, 0 when it has none
FirstDot(s) == IF \E i \in 1..Len(s) : s[i] = "."
               THEN CHOOSE i \in 1..Len(s) : s[i] = "." /\ \A j \in 1..(i - 1) : s[j] # "."
               ELSE 0

NonZeroDigits == AsciiDigits \ {"0"}

\* %d: 3[0-1] | [1-2]\d | 0[1-9] | [1-9] | " "[1-9]
MatchesDay(s) ==
    \/ /\ Len(s) = 2
       /\ \/ s[1] = "3" /\ s[2] \in {"0", "1"}
          \/ s[1] \in {"1", "2"} /\ IsDecimal(s[2])
          \/ s[1] = "0" /\ s[2] \in NonZeroDigits
          \/ s[1] = " " /\ s[2] \in NonZeroDigits
    \/ Len(s) = 1 /\ s[1] \in NonZeroDigits

\* %m: 1[0-2] | 0[1-9] | [1-9]
MatchesMonth(s) ==
    \/ /\ Len(s) = 2
       /\ \/ s[1] = "1" /\ s[2] \in {"0", "1", "2"}
          \/ s[1] = "0" /\ s[2] \in NonZeroDigits
    \/ Len(s) = 1 /\ s[1] \in NonZeroDigits

\* %Y: \d\d\d\d, and no unconverted data may remain after it
MatchesYear(s) == Len(s) = 4 /\ \A i \in 1..4 : IsDecimal(s[i])

\* int() of a matched %d group, whose first character may be a space
DayValue(s) == IF s[1] = " " THEN ToInt(Tail(s)) ELSE ToInt(s)

\* the date, or a ValueError (whose text Birthday replaces by its own)
strptime(s) ==
    LET i    == FirstDot(s)
        dd   == SubSeq(s, 1, i - 1)
        rest == SubSeq(s, i + 1, Len(s))
        j    == FirstDot(rest)
        mm   == SubSeq(rest, 1, j - 1)
        yy   == SubSeq(rest, j + 1, Len(rest))
    IN  IF i = 0 \/ j = 0 \/ ~MatchesDay(dd) \/ ~MatchesMonth(mm) \/ ~MatchesYear(yy)
        THEN Raise("ValueError", "time data does not match format '%d.%m.%Y'")
        ELSE IF ~ValidDate(ToInt(yy), ToInt(mm), DayValue(dd))
        THEN Raise("ValueError", "day is out of range for month")
        ELSE Return(Date(ToInt(yy), ToInt(mm), DayValue(dd)))

\* dt.replace(year=y)
ReplaceYear(dt, y) ==
    IF ValidDate(y, dt.month, dt.day)
    THEN Return(Date(y, dt.month, dt.day))
    ELSE Raise("ValueError", "day is out of range for month")

\* dt.strftime("%d.%m.%Y"), for the years 1000..9999
strftime(dt) ==
    Dec(dt.day, 2) \o <<".">> \o Dec(dt.month, 2) \o <<".">> \o Dec(dt.year, 4)

(***************************************************************************)
(* Fields.                                                                 *)
(***************************************************************************)
\* Phone(value)
Phone(value) ==
    IF ~isdigit(value) \/ Len(value) # 10
    THEN Raise("ValueError", "Phone number must contain exactly 10 digits.")
    ELSE Return(value)

\* Birthday(value): the stored value is the text as given
Birthday(value) ==
    IF Raised(strptime(value))
    THEN Raise("ValueError", "Invalid date format. Use DD.MM.YYYY")
    ELSE Return(value)

(***************************************************************************)
(* Record: name, phones (a list of Phone values), birthday (<<>> is None,  *)
(* <<v>> a Birthday of value v).  A method returns its outcome and the     *)
(* record it leaves.                                                       *)
(***************************************************************************)
Record(name) == [name |-> name, phones |-> <<>>, birthday |-> <<>>]

Outcome(o, rec) == [out |-> o, rec |-> rec]

\* Record.find_phone: the index of the first phone of that value, 0 for None
find_phone(rec, phone) ==
    IF \E i \in 1..Len(rec.phones) : rec.phones[i] = phone
    THEN CHOOSE i \in 1..Len(rec.phones) :
            /\ rec.phones[i] = phone
            /\ \A j \in 1..(i - 1) : rec.phones[j] # phone
    ELSE 0

\* Without, dropping only the first entry of that value
WithoutFirst(phones, phone) ==
    IF \E i \in 1..Len(phones) : phones[i] = phone
    THEN LET i == CHOOSE k \in 1..Len(phones) :
                    phones[k] = phone /\ \A j \in 1..(k - 1) : phones[j] # phone
         IN  SubSeq(phones, 1, i - 1) \o SubSeq(phones, i + 1, Len(phones))
    ELSE phones

\* [ph for ph in phones if ph.value != phone]
RECURSIVE Without(_, _)
Without(phones, phone) ==
    IF phones = <<>> THEN <<>>
    ELSE IF Head(phones) = phone THEN Without(Tail(phones), phone)
    ELSE <<Head(phones)>> \o Without(Tail(phones), phone)

\* Record.add_phone
add_phone(rec, phone) ==
    LET p == Phone(phone)
    IN  IF Raised(p) THEN Outcome(p, rec)
        ELSE Outcome(Return("None"), [rec EXCEPT !.phones = Append(@, p.value)])

\* remove_phone, returning silently when no phone has that value
RemovePhoneSilently(rec, phone) ==
    Outcome(Return("None"), [rec EXCEPT !.phones = Without(@, phone)])

\* Record.remove_phone
remove_phone(rec, phone) ==
    IF find_phone(rec, phone) # 0
    THEN Outcome(Return("None"), [rec EXCEPT !.phones = Without(@, phone)])
    ELSE Outcome(Raise("ValueError", "Phone number " \o Str(phone) \o " not found."), rec)

\* edit_phone, putting the new value in the place of the first old one
EditPhoneInPlace(rec, old_phone, new_phone) ==
    IF ~isdigit(new_phone) \/ Len(new_phone) # 10
    THEN Outcome(Raise("ValueError", "New phone number " \o Str(new_phone)
                         \o " is invalid. It must contain exactly 10 digits."), rec)
    ELSE IF find_phone(rec, old_phone) # 0
    THEN Outcome(Return("None"),
                 [rec EXCEPT !.phones[find_phone(rec, old_phone)] = new_phone])
    ELSE Outcome(Raise("ValueError", "Old phone number " \o Str(old_phone)
                         \o " does not exist."), rec)

\* Record.edit_phone
edit_phone(rec, old_phone, new_phone) ==
    IF ~isdigit(new_phone) \/ Len(new_phone) # 10
    THEN Outcome(Raise("ValueError", "New phone number " \o Str(new_phone)
                         \o " is invalid. It must contain exactly 10 digits."), rec)
    ELSE IF find_phone(rec, old_phone) # 0
    THEN LET removed == remove_phone(rec, old_phone)
         IN  IF Raised(removed.out) THEN removed
             ELSE add_phone(removed.rec, new_phone)
    ELSE Outcome(Raise("ValueError", "Old phone number " \o Str(old_phone)
                         \o " does not exist."), rec)

\* Record.add_birthday
add_birthday(rec, birthday) ==
    LET b == Birthday(birthday)
    IN  IF Raised(b) THEN Outcome(b, rec)
        ELSE Outcome(Return("None"), [rec EXCEPT !.birthday = <<b.value>>])

\* Record.__str__
RecordStr(rec) ==
    "Contact name: " \o Str(rec.name) \o ", phones: "
      \o Join("; ", [i \in 1..Len(rec.phones) |-> Str(rec.phones[i])])
      \o (IF rec.birthday # <<>> THEN ", birthday: " \o Str(rec.birthday[1]) ELSE "")

(***************************************************************************)
(* AddressBook: records is the dict, as the list of its values in          *)
(* insertion order, one per name.                                          *)
(***************************************************************************)
\* AddressBook.find: the index of the record of that name, 0 for None
find(recs, name) ==
    IF \E i \in 1..Len(recs) : recs[i].name = name
    THEN CHOOSE i \in 1..Len(recs) : recs[i].name = name
    ELSE 0

\* AddressBook.add_record: self.records[record.name.value] = record
add_record(recs, record) ==
    IF find(recs, record.name) # 0
    THEN [recs EXCEPT ![find(recs, record.name)] = record]
    ELSE Append(recs, record)

BookOutcome(o, recs) == [out |-> o, records |-> recs]

\* AddressBook.delete
delete(recs, name) ==
    IF find(recs, name) # 0
    THEN BookOutcome(Return("None"),
                     [i \in 1..(Len(recs) - 1) |->
                        IF i < find(recs, name) THEN recs[i] ELSE recs[i + 1]])
    ELSE BookOutcome(Raise("ValueError", "Record with name " \o Str(name) \o " not found."),
                     recs)

\* AddressBook.get_all_contacts
get_all_contacts(recs) == Join("\n", [i \in 1..Len(recs) |-> RecordStr(recs[i])])

\* find_next_weekday, the days ahead not taken modulo 7
FindNextWeekdayNoWrap(start_date, wd) ==
    AddDays(start_date, wd - weekday(start_date))

\* AddressBook.find_next_weekday
find_next_weekday(start_date, wd) ==
    LET days_ahead == (wd - weekday(start_date)) % 7
    IN  AddDays(start_date, days_ahead)

\* AddressBook.adjust_for_weekend
adjust_for_weekend(date) ==
    IF weekday(date) >= 5 THEN find_next_weekday(date, 0) ELSE date

\* the birthday of one record placed in today's year, rolled to the next
\* year when it is already past: a date, or the ValueError of replace
BirthdayDate(record, td) ==
    LET parsed == strptime(record.birthday[1])
    IN  IF Raised(parsed) THEN parsed
        ELSE LET this_year == ReplaceYear(parsed.value, td.year)
             IN  IF Raised(this_year) THEN this_year
                 ELSE IF DateBefore(this_year.value, td)
                 THEN ReplaceYear(this_year.value, td.year + 1)
                 ELSE this_year

\* the loop of get_upcoming_birthdays from the record at index i on
RECURSIVE UpcomingFrom(_, _, _, _)
UpcomingFrom(recs, td, i, upcoming) ==
    IF i > Len(recs) THEN Return(upcoming)
    ELSE IF recs[i].birthday = <<>> THEN UpcomingFrom(recs, td, i + 1, upcoming)
    ELSE LET birthday_date == BirthdayDate(recs[i], td)
         IN  IF Raised(birthday_date) THEN birthday_date
             ELSE LET days_until_birthday == DaysBetween(birthday_date.value, td)
                  IN  IF 0 <= days_until_birthday /\ days_until_birthday <= 7
                      THEN UpcomingFrom(recs, td, i + 1,
                             Append(upcoming,
                                    [name     |-> recs[i].name,
                                     birthday |-> strftime(adjust_for_weekend(
                                                             birthday_date.value))]))
                      ELSE UpcomingFrom(recs, td, i + 1, upcoming)

\* AddressBook.get_upcoming_birthdays, with today = td
get_upcoming_birthdays(recs, td) == UpcomingFrom(recs, td, 1, <<>>)

(***************************************************************************)
(* Command handlers.                                                       *)
(***************************************************************************)
\* a, b, ... = values: the ValueError of unpacking a list of the wrong length
\* (the texts are those of CPython 3.8 to 3.13)
Unpack(values, n) ==
    IF Len(values) < n
    THEN Raise("ValueError", "not enough values to unpack (expected "
                 \o Str(Dec(n, 1)) \o ", got " \o Str(Dec(Len(values), 1)) \o ")")
    ELSE IF Len(values) > n
    THEN Raise("ValueError", "too many values to unpack (expected "
                 \o Str(Dec(n, 1)) \o ")")
    ELSE Return(values)

\* values[:n]
Slice(values, n) == SubSeq(values, 1, IF Len(values) < n THEN Len(values) ELSE n)

\* values[0]
First(values) ==
    IF Len(values) = 0 THEN Raise("IndexError", "list index out of range")
    ELSE Return(values[1])

\* input_error catching ValueError alone
CaughtValueErrorOnly == {"ValueError"}

\* the exceptions input_error catches
Caught == {"ValueError", "IndexError"}

\* input_error: the wrapper of every handler
input_error(handled) ==
    IF Raised(handled.out) /\ handled.out.exc \in Caught
    THEN BookOutcome(Return("Error: " \o handled.out.msg), handled.records)
    ELSE handled

\* the method outcome m of the record at index i, as an outcome of the book
OnRecord(recs, i, m) == BookOutcome(m.out, [recs EXCEPT ![i] = m.rec])

\* add_contact, the phone validated before the record is created
AddContactAtomic(args, book) ==
    LET unpacked == Unpack(Slice(args, 2), 2)
    IN  IF Raised(unpacked) THEN BookOutcome(unpacked, book)
        ELSE IF Raised(Phone(unpacked.value[2]))
        THEN BookOutcome(Phone(unpacked.value[2]), book)
        ELSE LET name   == unpacked.value[1]
                 added  == IF find(book, name) = 0 THEN add_record(book, Record(name))
                           ELSE book
                 i      == find(added, name)
             IN  BookOutcome(Return("Contact added"),
                             OnRecord(added, i,
                                      add_phone(added[i], unpacked.value[2])).records)

\* add_contact, undecorated
add_contact_body(args, book) ==
    LET unpacked == Unpack(Slice(args, 2), 2)
    IN  IF Raised(unpacked) THEN BookOutcome(unpacked, book)
        ELSE LET name   == unpacked.value[1]
                 phone  == unpacked.value[2]
                 added  == IF find(book, name) = 0 THEN add_record(book, Record(name))
                           ELSE book
                 i      == find(added, name)
                 done   == OnRecord(added, i, add_phone(added[i], phone))
             IN  IF Raised(done.out) THEN done
                 ELSE BookOutcome(Return("Contact added"), done.records)

add_contact(args, book) == input_error(add_contact_body(args, book))

\* edit_contact, undecorated
edit_contact_body(args, book) ==
    LET unpacked == Unpack(Slice(args, 3), 3)
    IN  IF Raised(unpacked) THEN BookOutcome(unpacked, book)
        ELSE LET name == unpacked.value[1]
                 i    == find(book, name)
                 done == OnRecord(book, i,
                                  edit_phone(book[i], unpacked.value[2], unpacked.value[3]))
             IN  IF i = 0 THEN BookOutcome(Return("Contact not found"), book)
                 ELSE IF Raised(done.out) THEN done
                 ELSE BookOutcome(Return("Contact updated"), done.records)

edit_contact(args, book) == input_error(edit_contact_body(args, book))

\* the handler find_phone, undecorated
find_phone_body(args, book) ==
    LET name == First(args)
        i    == find(book, name.value)
    IN  IF Raised(name) THEN BookOutcome(name, book)
        ELSE IF i = 0 \/ book[i].phones = <<>>
        THEN BookOutcome(Return("Phone not found"), book)
        ELSE BookOutcome(
               Return("Phone number " \o Str(name.value) \o ": "
                        \o Join(",", [k \in 1..Len(book[i].phones) |->
                                        Str(book[i].phones[k])])),
               book)

find_phone_handler(args, book) == input_error(find_phone_body(args, book))

\* show_all
show_all(book) == input_error(BookOutcome(Return(get_all_contacts(book)), book))

\* the handler add_birthday, undecorated
add_birthday_body(args, book) ==
    LET unpacked == Unpack(args, 2)
    IN  IF Raised(unpacked) THEN BookOutcome(unpacked, book)
        ELSE LET name == unpacked.value[1]
                 i    == find(book, name)
                 done == OnRecord(book, i, add_birthday(book[i], unpacked.value[2]))
             IN  IF i = 0 THEN BookOutcome(Return("Birthday not found"), book)
                 ELSE IF Raised(done.out) THEN done
                 ELSE BookOutcome(Return("Birthday added"), done.records)

add_birthday_handler(args, book) == input_error(add_birthday_body(args, book))

\* show_birthday, undecorated
show_birthday_body(args, book) ==
    LET name == First(args)
        i    == find(book, name.value)
    IN  IF Raised(name) THEN BookOutcome(name, book)
        ELSE IF i = 0 \/ book[i].birthday = <<>>
        THEN BookOutcome(Return("Birthday not found"), book)
        ELSE BookOutcome(Return("Birthday " \o Str(name.value) \o " is "
                                  \o Str(book[i].birthday[1])), book)

show_birthday(args, book) == input_error(show_birthday_body(args, book))

\* show_birthdays, undecorated, with today = td
show_birthdays_body(book, td) ==
    LET birthdays == get_upcoming_birthdays(book, td)
    IN  IF Raised(birthdays) THEN BookOutcome(birthdays, book)
        ELSE IF birthdays.value = <<>>
        THEN BookOutcome(Return("There are no birthdays for the next week."), book)
        ELSE BookOutcome(
               Return(Join("\n", [k \in 1..Len(birthdays.value) |->
                                    Str(birthdays.value[k].name) \o " - with "
                                      \o Str(birthdays.value[k].birthday)])),
               book)

show_birthdays(book, td) == input_error(show_birthdays_body(book, td))

\* a value of today for the commands that do not read the clock
NoDate == Date(1, 1, 1)

\* main: the dispatch of a command to its handler, today being td
Dispatch(command, args, book, td) ==
    CASE command = "add" -> add_contact(args, book)
      [] command = "change" -> edit_contact(args, book)
      [] command = "phone" -> find_phone_handler(args, book)
      [] command = "all" -> show_all(book)
      [] command = "add-birthday" -> add_birthday_handler(args, book)
      [] command = "show-birthday" -> show_birthday(args, book)
      [] command = "birthdays" -> show_birthdays(book, td)

(***************************************************************************)
(* Inputs.                                                                 *)
(***************************************************************************)
Anna == <<"A", "n", "n", "a">>
Bob == <<"B", "o", "b">>
Names == {Anna, Bob}

Phone1 == <<"0", "1", "2", "3", "4", "5", "6", "7", "8", "9">>
Phone2 == <<"0", "9", "8", "7", "6", "5", "4", "3", "2", "1">>
\* ten characters str.isdigit() accepts, the last one U+00B2
PhoneSuperscript == <<"0", "1", "2", "3", "4", "5", "6", "7", "8", "²">>
PhoneShort == <<"1", "2", "3", "4", "5">>
PhoneLetters == <<"0", "1", "2", "3", "4", "a", "b", "c", "d", "e">>

LeapDay == <<"2", "9", ".", "0", "2", ".", "2", "0", "2", "4">>
June2 == <<"0", "2", ".", "0", "6", ".", "2", "0", "0", "0">>
NewYear == <<"0", "1", ".", "0", "1", ".", "2", "0", "0", "1">>
Dec30 == <<"3", "0", ".", "1", "2", ".", "1", "9", "9", "9">>
March1Unpadded == <<"1", ".", "3", ".", "2", "0", "2", "0">>
Feb30 == <<"3", "0", ".", "0", "2", ".", "2", "0", "2", "4">>
Month13 == <<"1", "2", ".", "1", "3", ".", "2", "0", "2", "4">>
LeapDay2023 == <<"2", "9", ".", "0", "2", ".", "2", "0", "2", "3">>
Extra == <<"x">>

\* every day of these years is a value of today for the query called directly
Years == {2023, 2024}
Todays == {Date(y, m, d) : y \in Years, m \in 1..12, d \in 1..31} \cap
          {dt \in [year : Years, month : 1..12, day : 1..31] :
             ValidDate(dt.year, dt.month, dt.day)}

\* the values of today for the birthdays command: a Saturday, and around the
\* end of February of a leap and of a common year
CmdTodays == {Date(2024, 6, 1), Date(2024, 2, 28), Date(2023, 2, 25)}

Call(op, args) == [op |-> op, args |-> args]

\* the argument lists of a command whose arguments are drawn from the sets
\* doms[1], doms[2], ...: every list of at most Len(doms) arguments, and the
\* full lists followed by one extra argument
RECURSIVE Lists(_, _)
Lists(doms, n) ==
    IF n = 0 THEN {<<>>}
    ELSE {Append(l, x) : l \in Lists(doms, n - 1), x \in doms[n]}

ArgLists(doms) ==
    UNION {Lists(doms, n) : n \in 0..Len(doms)}
      \cup {Append(l, Extra) : l \in Lists(doms, Len(doms))}

(***************************************************************************)
(* Calls.  Between two calls (pc = "ready") nothing of the last call is    *)
(* left; a call runs whole and leaves its outcome (pc = "returned").       *)
(***************************************************************************)
NoCall == Call("", <<>>)

Ready(recs) ==
    /\ records = recs
    /\ before = recs
    /\ today = <<>>
    /\ call = NoCall
    /\ result = Return("None")
    /\ pc = "ready"

\* the call op(args) made on the book, with outcome handled, having read
\* the clock as td (<<>> when it does not read it)
Called(op, args, td, handled) ==
    /\ pc = "ready"
    /\ records' = handled.records
    /\ before' = records
    /\ today' = td
    /\ call' = Call(op, args)
    /\ result' = handled.out
    /\ pc' = "returned"

\* the caller takes the value returned and goes on to its next call; an
\* exception that reached it has ended the program
Continue ==
    /\ pc = "returned"
    /\ result.kind = "return"
    /\ before' = records
    /\ today' = <<>>
    /\ call' = NoCall
    /\ result' = Return("None")
    /\ pc' = "ready"
    /\ UNCHANGED records

(***************************************************************************)
(* The session: main's loop dispatching commands on the address book,      *)
(* which starts empty (load_data without a file).                          *)
(***************************************************************************)
Init == Ready(<<>>)

WithinBook(recs) == \A i \in 1..Len(recs) : Len(recs[i].phones) <= MaxBookPhones

Command(op, args, td, handled) ==
    /\ pc = "ready"
    /\ WithinBook(handled.records)
    /\ Called(op, args, td, handled)

AddArgs == ArgLists(<<Names, {Phone1, PhoneSuperscript, PhoneShort}>>)
ChangeArgs == ArgLists(<<Names, {Phone1, PhoneSuperscript},
                         {Phone1, PhoneSuperscript, PhoneShort}>>)
NameArgs == ArgLists(<<Names>>)
BirthdayArgs == ArgLists(<<Names, {LeapDay, June2, Feb30}>>)

Add == \E args \in AddArgs :
          Command("add", args, <<>>, add_contact(args, records))

Change == \E args \in ChangeArgs :
          Command("change", args, <<>>, edit_contact(args, records))

PhoneCmd == \E args \in NameArgs :
          Command("phone", args, <<>>, find_phone_handler(args, records))

All == Command("all", <<>>, <<>>, show_all(records))

AddBirthday == \E args \in BirthdayArgs :
          Command("add-birthday", args, <<>>, add_birthday_handler(args, records))

ShowBirthday == \E args \in NameArgs :
          Command("show-birthday", args, <<>>, show_birthday(args, records))

Birthdays == \E td \in CmdTodays :
          Command("birthdays", <<>>, <<td>>, show_birthdays(records, td))

\* ui.show_message(...) of the handler's answer, and back to ui.get_input
ShowMessage == Continue

Next == \/ Add
        \/ Change
        \/ PhoneCmd
        \/ All
        \/ AddBirthday
        \/ ShowBirthday
        \/ Birthdays
        \/ ShowMessage

Spec == Init /\ [][Next]_vars

(***************************************************************************)
(* The methods of one Record, called directly.                             *)
(***************************************************************************)
InitRecord == Ready(<<Record(Anna)>>)

Method(op, args, m) ==
    /\ pc = "ready"
    /\ Len(m.rec.phones) <= MaxPhones
    /\ Called(op, args, <<>>, BookOutcome(m.out, <<m.rec>>))

RecordPhones == {Phone1, Phone2, PhoneSuperscript, PhoneShort}

RecordAddPhone == \E p \in RecordPhones :
    Method("add_phone", <<p>>, add_phone(records[1], p))

RecordRemovePhone == \E p \in RecordPhones :
    Method("remove_phone", <<p>>, remove_phone(records[1], p))

RecordEditPhone == \E old \in RecordPhones, new \in RecordPhones :
    Method("edit_phone", <<old, new>>, edit_phone(records[1], old, new))

RecordFindPhone == \E p \in RecordPhones :
    Method("find_phone", <<p>>,
           Outcome(Return(IF find_phone(records[1], p) = 0 THEN <<>> ELSE <<p>>),
                   records[1]))

RecordAddBirthday == \E b \in {June2, Month13} :
    Method("add_birthday", <<b>>, add_birthday(records[1], b))

\* a ValueError of a method is caught by the caller, which goes on
RecordContinue ==
    /\ pc = "returned"
    /\ before' = records
    /\ today' = <<>>
    /\ call' = NoCall
    /\ result' = Return("None")
    /\ pc' = "ready"
    /\ UNCHANGED records

NextRecord == \/ RecordAddPhone
              \/ RecordRemovePhone
              \/ RecordEditPhone
              \/ RecordFindPhone
              \/ RecordAddBirthday
              \/ RecordContinue

SpecRecord == InitRecord /\ [][NextRecord]_vars

(***************************************************************************)
(* The AddressBook and its birthdays query, called directly.               *)
(***************************************************************************)
InitBook == Ready(<<>>)

BookBirthdays == {LeapDay, June2, NewYear, Dec30, March1Unpadded, LeapDay2023}

BookAddRecord == \E name \in Names :
    Called("add_record", <<name>>, <<>>,
           BookOutcome(Return("None"), add_record(records, Record(name))))

BookAddBirthday == \E name \in Names, b \in BookBirthdays :
    /\ pc = "ready"
    /\ find(records, name) # 0
    /\ Called("add_birthday", <<name, b>>, <<>>,
              OnRecord(records, find(records, name),
                       add_birthday(records[find(records, name)], b)))

BookDelete == \E name \in Names :
    Called("delete", <<name>>, <<>>, delete(records, name))

BookUpcoming == \E td \in Todays :
    Called("get_upcoming_birthdays", <<>>, <<td>>,
           BookOutcome(get_upcoming_birthdays(records, td), records))

\* a ValueError of a method is caught by the caller, which goes on
BookContinue ==
    /\ pc = "returned"
    /\ before' = records
    /\ today' = <<>>
    /\ call' = NoCall
    /\ result' = Return("None")
    /\ pc' = "ready"
    /\ UNCHANGED records

NextBook == \/ BookAddRecord
            \/ BookAddBirthday
            \/ BookDelete
            \/ BookUpcoming
            \/ BookContinue

SpecBook == InitBook /\ [][NextBook]_vars

(***************************************************************************)
(* Properties of the Record methods (SpecRecord).                          *)
(***************************************************************************)
Returned(op) == pc = "returned" /\ call.op = op

\* how many entries of phones have that value
Occurrences(phones, phone) == Cardinality({i \in 1..Len(phones) : phones[i] = phone})

Contains(phones, phone) == \E i \in 1..Len(phones) : phones[i] = phone

\* phones without the entries of that value, the others in their order
Others(phones, phone) ==
    LET Keep(p) == p # phone
    IN  SelectSeq(phones, Keep)

\* an edit_phone(old, new) that succeeded on a record holding old
EditSucceeded ==
    /\ Returned("edit_phone")
    /\ Contains(before[1].phones, call.args[1])
    /\ result.kind = "return"

\* C3 as stated: after a successful edit_phone(old, new), also one with new
\* equal to old, find_phone(old) is absent and find_phone(new) is present.
EditPhoneOldAbsentNewPresent ==
    EditSucceeded =>
        /\ find_phone(records[1], call.args[1]) = 0
        /\ find_phone(records[1], call.args[2]) # 0

\* C3 amended: after a successful edit_phone(old, new) on a record holding
\* old (once or several times), find_phone(new) is present, and
\* find_phone(old) is absent when new differs from old; when new equals old
\* it is present, being the entry just appended.
EditPhoneNewPresentOldAbsentIfDifferent ==
    EditSucceeded =>
        /\ find_phone(records[1], call.args[2]) # 0
        /\ call.args[1] # call.args[2] => find_phone(records[1], call.args[1]) = 0
        /\ call.args[1] = call.args[2] => find_phone(records[1], call.args[1]) # 0

\* a successful edit of a phone held twice into a different one
EditedDuplicatedPhone ==
    /\ EditSucceeded
    /\ Occurrences(before[1].phones, call.args[1]) >= 2
    /\ call.args[1] # call.args[2]

\* C4: a successful edit_phone(old, new) leaves the phones that differ from
\* old, in their order, followed by new as the last entry; the length
\* changes by 1 minus the number of occurrences of old.
EditPhoneRemovesThenAppends ==
    EditSucceeded =>
        /\ records[1].phones = Others(before[1].phones, call.args[1]) \o <<call.args[2]>>
        /\ Len(records[1].phones) =
             Len(before[1].phones) + 1 - Occurrences(before[1].phones, call.args[1])
        /\ records[1].birthday = before[1].birthday

\* a successful edit of a phone held twice, before two other phones, the
\* first of the old ones leading the list
EditedAmongOthers ==
    /\ EditSucceeded
    /\ Occurrences(before[1].phones, call.args[1]) = 2
    /\ Len(before[1].phones) = 4
    /\ before[1].phones[1] = call.args[1]
    /\ Cardinality({before[1].phones[i] : i \in 1..4}) = 3

\* C5: remove_phone(value) on a record with no phone of that value raises
\* the ValueError "Phone number {value} not found." and leaves the phones
\* and the birthday of the record as they were.
RemoveAbsentPhoneFails ==
    Returned("remove_phone") /\ ~Contains(before[1].phones, call.args[1]) =>
        /\ result = Raise("ValueError",
                          "Phone number " \o Str(call.args[1]) \o " not found.")
        /\ records[1].phones = before[1].phones
        /\ records[1].birthday = before[1].birthday

\* remove_phone of an absent value on a record with two phones and a birthday
RemovedAbsentPhone ==
    /\ Returned("remove_phone")
    /\ ~Contains(before[1].phones, call.args[1])
    /\ Len(before[1].phones) = 2
    /\ before[1].phones[1] # before[1].phones[2]
    /\ before[1].birthday # <<>>

(***************************************************************************)
(* Properties of the commands (Spec).                                      *)
(***************************************************************************)
ArgCommands == {"add", "change", "phone", "add-birthday", "show-birthday"}

Commands == ArgCommands \cup {"all", "birthdays"}

\* the number of arguments the command needs
Required == [c \in ArgCommands |->
               CASE c = "add" -> 2 [] c = "change" -> 3 [] c = "add-birthday" -> 2
                 [] OTHER -> 1]

InvalidPhones == {PhoneShort, PhoneLetters}

InvalidDates == {Feb30, Month13, LeapDay2023}

InputTokens == Names \cup {Phone1, Phone2, PhoneSuperscript, PhoneShort, PhoneLetters,
                          Extra}

\* the index in recs of the record of that name, 0 when it has none
IndexOf(recs, name) ==
    IF \E i \in 1..Len(recs) : recs[i].name = name
    THEN CHOOSE i \in 1..Len(recs) : recs[i].name = name
    ELSE 0

\* the texts of the exceptions the handlers raise on these inputs
Messages ==
    {"Phone number must contain exactly 10 digits.",
     "Invalid date format. Use DD.MM.YYYY",
     "list index out of range",
     "day is out of range for month",
     "too many values to unpack (expected 2)"}
      \cup {"New phone number " \o Str(t) \o " is invalid. It must contain exactly 10 digits." :
              t \in InputTokens}
      \cup {"Old phone number " \o Str(t) \o " does not exist." : t \in InputTokens}
      \cup {"not enough values to unpack (expected " \o Str(Dec(n, 1)) \o ", got "
              \o Str(Dec(k, 1)) \o ")" : n \in 2..3, k \in 0..2}

\* a string of the form "Error: {message}"
IsErrorText(v) == \E m \in Messages : v = "Error: " \o m

\* the command was given its arguments, the first one naming record i of
\* the book (0: no such record)
Given(c, n) == Returned(c) /\ Len(call.args) = n

\* the failures of a command, from its arguments and the book it is given
TooFewArguments ==
    /\ pc = "returned"
    /\ call.op \in ArgCommands
    /\ Len(call.args) < Required[call.op]

MissingRecord ==
    /\ \/ Given("change", 3)
       \/ Given("phone", 1)
       \/ Given("add-birthday", 2)
       \/ Given("show-birthday", 1)
    /\ IndexOf(before, call.args[1]) = 0

BadPhone ==
    \/ Given("add", 2) /\ call.args[2] \in InvalidPhones
    \/ /\ Given("change", 3)
       /\ IndexOf(before, call.args[1]) # 0
       /\ call.args[3] \in InvalidPhones

BadDate ==
    /\ Given("add-birthday", 2)
    /\ IndexOf(before, call.args[1]) # 0
    /\ call.args[2] \in InvalidDates

MissingOldPhone ==
    /\ Given("change", 3)
    /\ IndexOf(before, call.args[1]) # 0
    /\ call.args[3] \notin InvalidPhones
    /\ ~Contains(before[IndexOf(before, call.args[1])].phones, call.args[2])

MissingPhone ==
    /\ Given("phone", 1)
    /\ IndexOf(before, call.args[1]) # 0
    /\ before[IndexOf(before, call.args[1])].phones = <<>>

MissingBirthday ==
    /\ Given("show-birthday", 1)
    /\ IndexOf(before, call.args[1]) # 0
    /\ before[IndexOf(before, call.args[1])].birthday = <<>>

NothingPropagates ==
    pc = "returned" /\ call.op \in Commands => result.kind = "return"

\* C6 as stated: every validation, not-found (record, phone, old phone) or
\* too-few-arguments failure of a command is returned as "Error: {message}",
\* and no exception leaves the handler.
FailuresReturnErrorText ==
    /\ NothingPropagates
    /\ TooFewArguments \/ BadPhone \/ BadDate \/ MissingRecord \/ MissingOldPhone
         \/ MissingPhone
         => result.kind = "return" /\ IsErrorText(result.value)

\* C6 amended: no exception leaves a handler; too few arguments, an invalid
\* phone (add, or change on an existing record), an invalid date
\* (add-birthday on an existing record) and a missing old phone are returned
\* as "Error: {message}" with the message of the exception; a missing record
\* is returned as the plain text "Contact not found" (change), "Phone not
\* found" (phone) or "Birthday not found" (add-birthday, show-birthday), as
\* is a record without phones (phone) or without birthday (show-birthday).
FailuresReturnErrorOrNotFoundText ==
    /\ NothingPropagates
    /\ TooFewArguments \/ BadPhone \/ BadDate \/ MissingOldPhone
         => result.kind = "return" /\ IsErrorText(result.value)
    /\ TooFewArguments /\ Required[call.op] = 1
         => result.value = "Error: list index out of range"
    /\ Given("add", 2) /\ BadPhone
         => result.value = "Error: Phone number must contain exactly 10 digits."
    /\ Given("change", 3) /\ BadPhone
         => result.value = "Error: New phone number " \o Str(call.args[3])
                             \o " is invalid. It must contain exactly 10 digits."
    /\ MissingOldPhone
         => result.value = "Error: Old phone number " \o Str(call.args[2])
                             \o " does not exist."
    /\ BadDate => result.value = "Error: Invalid date format. Use DD.MM.YYYY"
    /\ MissingRecord \/ MissingPhone \/ MissingBirthday
         => /\ result.value = (CASE call.op = "change" -> "Contact not found"
                                 [] call.op = "phone" -> "Phone not found"
                                 [] OTHER -> "Birthday not found")
            /\ ~IsErrorText(result.value)

\* change on an existing record with phones, naming an old phone it lacks
ChangeOfMissingOldPhoneAnswered ==
    /\ MissingOldPhone
    /\ before[IndexOf(before, call.args[1])].phones # <<>>
    /\ IsErrorText(result.value)

\* C7: every phone of every record of the book is a string of exactly 10
\* characters, each one of the decimal digits 0 to 9.
PhonesAreTenDecimalDigits ==
    \A i \in 1..Len(records) : \A k \in 1..Len(records[i].phones) :
        /\ Len(records[i].phones[k]) = 10
        /\ \A j \in 1..Len(records[i].phones[k]) :
              records[i].phones[k][j] \in {"0", "1", "2", "3", "4", "5", "6", "7", "8", "9"}

\* C9: a command given its required arguments and then extra ones returns
\* the same string and leaves the same book as with the required ones alone.
ExtraArgumentsIgnored ==
    /\ pc = "returned"
    /\ call.op \in ArgCommands
    /\ Len(call.args) > Required[call.op]
    => LET alone == Dispatch(call.op, SubSeq(call.args, 1, Required[call.op]),
                             before, NoDate)
       IN  result = alone.out /\ records = alone.records

\* C10: add(name, phone) with an invalid phone returns "Error: Phone number
\* must contain exactly 10 digits."; when the name was not in the book it has
\* added a record of that name without phones, which a later change or
\* add-birthday finds; when the name was in the book, the book is unchanged.
AddWithInvalidPhoneIsNotAtomic ==
    /\ Given("add", 2) /\ call.args[2] \in InvalidPhones
         => /\ result = Return("Error: Phone number must contain exactly 10 digits.")
            /\ IF IndexOf(before, call.args[1]) = 0
               THEN records = Append(before, Record(call.args[1]))
               ELSE records = before
    /\ (/\ Given("change", 3) \/ Given("add-birthday", 2)
        /\ IndexOf(before, call.args[1]) # 0
        /\ before[IndexOf(before, call.args[1])].phones = <<>>)
         => result.value \notin {"Contact not found", "Birthday not found"}

\* a record left without phones by a failed add, found by add-birthday
EmptyRecordFound ==
    /\ Given("add-birthday", 2)
    /\ IndexOf(before, call.args[1]) # 0
    /\ before[IndexOf(before, call.args[1])].phones = <<>>
    /\ result = Return("Birthday added")

(***************************************************************************)
(* Properties of the birthdays query (SpecBook).                           *)
(***************************************************************************)
Queried == Returned("get_upcoming_birthdays")

\* the day and month of a stored birthday
BirthdayOf(record) == strptime(record.birthday[1]).value

\* the days from td to td + 7 that have the day and month of the birthday:
\* its next occurrence on or after td, when that is at most 7 days away
OccurrencesInWindow(record, td) ==
    {dt \in {AddDays(td, k) : k \in 0..7} :
        dt.month = BirthdayOf(record).month /\ dt.day = BirthdayOf(record).day}

InWindow(record, td) ==
    record.birthday # <<>> /\ OccurrencesInWindow(record, td) # {}

\* the entries returned for that name
EntriesOf(name) == {k \in 1..Len(result.value) : result.value[k].name = name}

\* C1: for every today and every book, get_upcoming_birthdays returns exactly
\* one entry for each record with a birthday whose next occurrence on or
\* after today is at most 7 days away, and no entry for any other record.
UpcomingIffInWindow ==
    Queried =>
        /\ result.kind = "return"
        /\ \A i \in 1..Len(records) :
              Cardinality(EntriesOf(records[i].name)) =
                 IF InWindow(records[i], today[1]) THEN 1 ELSE 0

\* C1 on the books without a 29 February birthday
UpcomingIffInWindowWithoutLeapDay ==
    Queried /\ (\A i \in 1..Len(records) : records[i].birthday # <<LeapDay>>) =>
        /\ result.kind = "return"
        /\ \A i \in 1..Len(records) :
              Cardinality(EntriesOf(records[i].name)) =
                 IF InWindow(records[i], today[1]) THEN 1 ELSE 0
        /\ Len(result.value) =
              Cardinality({i \in 1..Len(records) : InWindow(records[i], today[1])})

\* the date the query has to report for an occurrence
Reported(occurrence) ==
    CASE weekday(occurrence) = 5 -> AddDays(occurrence, 2)
      [] weekday(occurrence) = 6 -> AddDays(occurrence, 1)
      [] OTHER -> occurrence

\* C2: every date get_upcoming_birthdays reports is a Monday to Friday: the
\* Monday 2 days after an occurrence on a Saturday, the Monday 1 day after
\* one on a Sunday, the occurrence itself otherwise.
ReportedDatesAreWeekdays ==
    Queried /\ result.kind = "return" =>
        \A k \in 1..Len(result.value) :
            LET record     == records[IndexOf(records, result.value[k].name)]
                occurrence == CHOOSE dt \in OccurrencesInWindow(record, today[1]) : TRUE
                reported   == strptime(result.value[k].birthday)
            IN  /\ reported.kind = "return"
                /\ weekday(reported.value) \in 0..4
                /\ OccurrencesInWindow(record, today[1]) # {}
                /\ reported.value = Reported(occurrence)
                /\ DaysBetween(reported.value, occurrence) \in 0..2

\* a query reporting two birthdays, one of them on a Saturday and moved to
\* a Monday of the next year
ReportedSaturdayAsMonday ==
    /\ Queried
    /\ result.kind = "return"
    /\ Len(result.value) = 2
    /\ \E k \in 1..2 :
          /\ weekday(CHOOSE dt \in OccurrencesInWindow(
                        records[IndexOf(records, result.value[k].name)], today[1]) : TRUE) = 5
          /\ strptime(result.value[k].birthday).value.year = today[1].year + 1

\* C8: with a record whose birthday is 29 February in the book,
\* get_upcoming_birthdays returns a list of entries for every today, also in
\* a common year and when the birthday rolls to a common next year.
LeapDayQueryReturns ==
    Queried /\ (\E i \in 1..Len(records) : records[i].birthday = <<LeapDay>>) =>
        result.kind = "return"

====
